---- MODULE Spec2Model ----
(***************************************************************************)
(* Model of the tplink-kasa-info command-line client (src/main.rs): the    *)
(* credential record on disk, the resolution of the login identity, the   *)
(* login call, the authenticated request with its single retry, the setup *)
(* flow and the two consumers that print the result.                      *)
(*                                                                         *)
(* One invocation of the program is a process.  The remote service, the   *)
(* terminal and the command line are the environment: every response and  *)
(* every input is drawn from a small set.  Each invocation keeps a log of *)
(* the I/O it performed, in order; the log is what the properties talk    *)
(* about.  The variable last remembers which process received a token     *)
(* last and which process wrote the file last.                            *)
(***************************************************************************)
EXTENDS Integers, Sequences, FiniteSets, TLC

VARIABLES file, inv, started, procs, last

vars == <<file, inv, started, procs, last>>

(***************************************************************************)
(* Bounds                                                                  *)
(***************************************************************************)
MaxInvocations == 2
MaxDevices == 2

(***************************************************************************)
(* Values                                                                  *)
(***************************************************************************)
Procs == {1, 2}

Null == "null"
Usernames == {"alice", "bob"}
Passwords == {"pw1", "pw2"}
Tokens == {"T0", "T1", "T2"}
Aliases == {"Lamp"}
DeviceIds == {"123"}
Commands == {"list", "get-data", "setup"}

\* main.rs:162, the reserved "token expired" error code
TokenExpiredCode == -20651

\* error codes the remote service may answer with
Codes == {0, TokenExpiredCode, -1, 1, -20601}

\* Settings (main.rs:22-27): the credential record; a field missing from
\* the file on disk is Null.
Settings(u, p, t) == [exists |-> TRUE, username |-> u, password |-> p, token |-> t]

NoFile == [exists |-> FALSE, username |-> Null, password |-> Null, token |-> Null]

\* what the file at the configured path may hold: nothing, a full record, or a
\* record written by hand without a token
FileStates ==
  {NoFile} \cup {Settings(u, p, t) : u \in Usernames, p \in Passwords, t \in Tokens \cup {Null}}

\* toml::from_slice::<Settings> (main.rs:133): every field of the struct is a
\* required String
ParsesAsSettings(f) == f.username # Null /\ f.password # Null /\ f.token # Null

\* LoginDetails (main.rs:29-32)
NoLoginDetails == [kind |-> "None", username |-> Null, password |-> Null, token |-> Null]

LoginDetailsSettings(s) ==
  [kind |-> "Settings", username |-> s.username, password |-> s.password, token |-> s.token]

LoginDetailsUsernameAndPassword(u, p) ==
  [kind |-> "UsernameAndPassword", username |-> u, password |-> p, token |-> Null]

\* the match with only the (Some(_), None) arm rejected
MatchArgs_OneArm(u, p) ==
  IF u # Null /\ p = Null THEN "InvalidArguments"
  ELSE IF u # Null /\ p # Null THEN "UsernameAndPassword"
  ELSE "Config"

\* the match on (username, password) of runner (main.rs:122-130)
MatchArgs(u, p) ==
  IF (u # Null /\ p = Null) \/ (u = Null /\ p # Null) THEN "InvalidArguments"
  ELSE IF u # Null /\ p # Null THEN "UsernameAndPassword"
  ELSE "Config"

\* go taking every negative code for the expiry of the token
ApiResult_AnyNegative(error_code) ==
  IF error_code = 0 THEN "Success"
  ELSE IF error_code < 0 THEN "TokenExpired"
  ELSE "Error"

\* ApiResult as decided by go (main.rs:159-166)
ApiResult(error_code) ==
  IF error_code = 0 THEN "Success"
  ELSE IF error_code = TokenExpiredCode THEN "TokenExpired"
  ELSE "Error"

\* the error check of get_new_token looking for positive codes only
LoginRejected_Positive(error_code) == error_code > 0

\* the error check of get_new_token (main.rs:81)
LoginRejected(error_code) == error_code # 0

\* get_new_token never persisting the token
PersistsToken_Never(login_details) == FALSE

\* get_new_token persisting the token for every identity
PersistsToken_Always(login_details) == TRUE

\* get_new_token persists the token only for a Settings identity (main.rs:86)
PersistsToken(login_details) == login_details.kind = "Settings"

\* the request built by the two consumers (main.rs:199, 217-222)
RequestOf(cmd) == IF cmd = "list" THEN "getDeviceList" ELSE "passthrough"

(***************************************************************************)
(* JSON payloads (the "result" member of a response)                       *)
(***************************************************************************)
Devices == [alias : Aliases \cup {Null}, deviceId : DeviceIds \cup {Null}]

RECURSIVE SeqsUpTo(_, _)
SeqsUpTo(S, n) ==
  IF n = 0 THEN {<<>>}
  ELSE LET shorter == SeqsUpTo(S, n - 1)
       IN  shorter \cup {Append(s, x) : s \in {t \in shorter : Len(t) = n - 1}, x \in S}

\* hasList: the payload is an object with an array member "deviceList"
Payloads ==
  [hasList : {TRUE}, deviceList : SeqsUpTo(Devices, MaxDevices), responseData : {Null, "data"}]
  \cup [hasList : {FALSE}, deviceList : {<<>>}, responseData : {Null, "data"}]

NoPayload == [hasList |-> FALSE, deviceList |-> <<>>, responseData |-> Null]

\* a response of the remote service to an API request: undecodable (transport
\* failure, not JSON, no integer error_code: the unwraps of main.rs:153-158)
\* (ok = FALSE) or an envelope.  The program looks at result only when
\* error_code is 0, so the other envelopes carry none.
ApiResponses ==
  [ok : {TRUE}, error_code : {0}, result : Payloads]
  \cup [ok : {TRUE}, error_code : Codes \ {0}, result : {NoPayload}]
  \cup [ok : {FALSE}, error_code : {0}, result : {NoPayload}]

\* The consumer of a getDeviceList request looks at deviceList only and the
\* consumer of a passthrough request at responseData only (main.rs:201-205,
\* 224), so that the answers to each vary in that member alone.
ApiResponsesTo(request) ==
  {resp \in ApiResponses :
     resp.error_code = 0 /\ resp.ok =>
       IF request = "getDeviceList" THEN resp.result.responseData = Null
       ELSE ~resp.result.hasList}

\* a response to the login call; token is Null when result.token is missing
\* or is not a string
LoginResponses ==
  [ok : {TRUE}, error_code : {0}, token : Tokens \cup {Null}]
  \cup [ok : {TRUE}, error_code : Codes \ {0}, token : {Null}]
  \cup [ok : {FALSE}, error_code : {0}, token : {Null}]

(***************************************************************************)
(* One invocation                                                          *)
(***************************************************************************)
\* prev: whether the invocation that this process ran before this one
\* obtained a new token for a Settings identity, and that token
NoPrev == [rotated |-> FALSE, token |-> Null]

Idle ==
  [pc |-> "idle", cmd |-> "list", argU |-> Null, argP |-> Null, overwrite |-> FALSE,
   login_details |-> NoLoginDetails, token |-> Null, result |-> NoPayload,
   error |-> "None", log |-> <<>>, file0 |-> NoFile, out |-> <<>>, prev |-> NoPrev]

NoneYet == [minted |-> 0, written |-> 0]

Panic(r, kind) == [r EXCEPT !.pc = "failed", !.error = kind]

Logged(r, e) == [r EXCEPT !.log = Append(@, e)]

Init ==
  /\ file \in FileStates
  /\ inv = [p \in Procs |-> Idle]
  /\ started = 0
  /\ procs = {1}
  /\ last = NoneYet

\* main (main.rs:229-294): the command line is parsed and the subcommand runs
Start(self) ==
  /\ self \in procs
  /\ inv[self].pc \in {"idle", "done", "failed"}
  /\ started < MaxInvocations
  /\ \E cmd \in Commands, u \in Usernames \cup {Null}, p \in Passwords \cup {Null},
        o \in BOOLEAN :
       /\ cmd = "setup" => (u = Null /\ p = Null)
       /\ cmd # "setup" => o = FALSE
       /\ inv' = [inv EXCEPT ![self] =
                    [Idle EXCEPT !.pc = IF cmd = "setup" THEN "setup" ELSE "runner",
                                 !.cmd = cmd, !.argU = u, !.argP = p, !.overwrite = o,
                                 !.file0 = file,
                                 !.prev = IF inv[self].login_details.kind = "Settings"
                                             /\ inv[self].token # Null
                                          THEN [rotated |-> TRUE, token |-> inv[self].token]
                                          ELSE NoPrev]]
  /\ started' = started + 1
  /\ UNCHANGED <<file, procs, last>>

(***************************************************************************)
(* runner (main.rs:117-196)                                                *)
(***************************************************************************)
\* the resolution without the exists() test: a missing file fails in the
\* unwrap of fs::read
Resolve_NoExistsTest(r, f) ==
  LET m == MatchArgs(r.argU, r.argP)
      read == Logged(r, [op |-> "read", record |-> f])
  IN  IF m = "InvalidArguments" THEN Panic(r, "InvalidArguments")
      ELSE IF m = "UsernameAndPassword"
        THEN [r EXCEPT !.login_details = LoginDetailsUsernameAndPassword(r.argU, r.argP),
                       !.pc = "get_new_token"]
      ELSE IF ~f.exists \/ ~ParsesAsSettings(f) THEN Panic(read, "Unwrap")
      ELSE [read EXCEPT !.login_details = LoginDetailsSettings(f), !.pc = "go"]

\* main.rs:121-139: the login identity is resolved from the flags and, when
\* there are none, from the record on disk
Resolve(r, f) ==
  LET m == MatchArgs(r.argU, r.argP)
      stat == Logged(r, [op |-> "exists"])
      read == Logged(stat, [op |-> "read", record |-> f])
  IN  IF m = "InvalidArguments" THEN Panic(r, "InvalidArguments")
      ELSE IF m = "UsernameAndPassword"
        THEN [r EXCEPT !.login_details = LoginDetailsUsernameAndPassword(r.argU, r.argP),
                       !.pc = "get_new_token"]
      ELSE IF ~f.exists THEN Panic(stat, "MissingConfiguration")
      ELSE IF ~ParsesAsSettings(f) THEN Panic(read, "Unwrap")
      ELSE [read EXCEPT !.login_details = LoginDetailsSettings(f), !.pc = "go"]

runner_resolve(self) ==
  /\ inv[self].pc = "runner"
  /\ inv' = [inv EXCEPT ![self] = Resolve(inv[self], file)]
  /\ UNCHANGED <<file, started, procs, last>>

\* go sending the token of the identity whatever token it is given
RequestEvent_IdentityToken(r, token, resp) ==
  [op |-> "request", token |-> r.login_details.token, request |-> RequestOf(r.cmd),
   ok |-> resp.ok, error_code |-> resp.error_code, result |-> resp.result]

\* go (main.rs:145-158): the request is posted with the token in the URL and
\* the payload of the consumer as body
RequestEvent(r, token, resp) ==
  [op |-> "request", token |-> token, request |-> RequestOf(r.cmd), ok |-> resp.ok,
   error_code |-> resp.error_code, result |-> resp.result]

\* the first attempt always followed by a new login, whatever it answers
GoStored_AlwaysRefresh(r, resp) ==
  LET r1 == Logged(r, RequestEvent(r, r.login_details.token, resp))
  IN  IF ~resp.ok THEN Panic(r1, "Unwrap") ELSE [r1 EXCEPT !.pc = "get_new_token"]

\* main.rs:181-191 with go (main.rs:145-167): the first attempt of a Settings
\* identity, with the token of the record
GoStored(r, resp) ==
  LET r1 == Logged(r, RequestEvent(r, r.login_details.token, resp))
      res == ApiResult(resp.error_code)
  IN  IF ~resp.ok THEN Panic(r1, "Unwrap")
      ELSE IF res = "Success" THEN [r1 EXCEPT !.result = resp.result, !.pc = "returned"]
      ELSE IF res = "TokenExpired" THEN [r1 EXCEPT !.pc = "get_new_token"]
      ELSE Panic(r1, "ApiError")

runner_go(self) ==
  /\ inv[self].pc = "go"
  /\ \E resp \in ApiResponsesTo(RequestOf(inv[self].cmd)) :
       inv' = [inv EXCEPT ![self] = GoStored(inv[self], resp)]
  /\ UNCHANGED <<file, started, procs, last>>

\* get_new_token (main.rs:50-85, 89): the login call and the decoding of its
\* response; control goes on to the write of main.rs:86-88 for a Settings
\* identity and back to the caller otherwise
Login(r, resp) ==
  LET r1 == Logged(r, [op |-> "login", username |-> r.login_details.username,
                       password |-> r.login_details.password, ok |-> resp.ok,
                       error_code |-> resp.error_code, token |-> resp.token])
  IN  IF ~resp.ok THEN Panic(r1, "Unwrap")
      ELSE IF LoginRejected(resp.error_code) THEN Panic(r1, "AuthenticationError")
      ELSE IF resp.token = Null THEN Panic(r1, "Unwrap")
      ELSE [r1 EXCEPT !.token = resp.token,
                      !.pc = IF PersistsToken(r.login_details) THEN "write_settings"
                             ELSE IF r.cmd = "setup" THEN "setup_write"
                             ELSE "fetch_go"]

get_new_token(self) ==
  /\ inv[self].pc = "get_new_token"
  /\ \E resp \in LoginResponses :
       /\ inv' = [inv EXCEPT ![self] = Login(inv[self], resp)]
       /\ last' = IF Login(inv[self], resp).token # Null THEN [last EXCEPT !.minted = self]
                  ELSE last
  /\ UNCHANGED <<file, started, procs>>

\* write_settings with the username and the password exchanged
WrittenRecord_Swapped(username, password, token) == Settings(password, username, token)

\* write_settings (main.rs:34-48): the record that replaces the file
WrittenRecord(username, password, token) == Settings(username, password, token)

\* the record saved with the token that the identity came with
PersistedRecord_StaleToken(r) ==
  WrittenRecord(r.login_details.username, r.login_details.password, r.login_details.token)

\* the arguments of the calls of write_settings (main.rs:87, 114): the
\* credentials that were used for the login and the token it returned
PersistedRecord(r) ==
  WrittenRecord(r.login_details.username, r.login_details.password, r.token)

\* main.rs:86-89: get_new_token saves the credentials of the identity with
\* the new token and returns to its caller
get_new_token_write(self) ==
  /\ inv[self].pc = "write_settings"
  /\ LET r == inv[self]
         rec == PersistedRecord(r)
     IN  /\ file' = rec
         /\ inv' = [inv EXCEPT ![self] =
                      [Logged(r, [op |-> "write", record |-> rec]) EXCEPT
                         !.pc = IF r.cmd = "setup" THEN "setup_write" ELSE "fetch_go"]]
  /\ last' = [last EXCEPT !.written = self]
  /\ UNCHANGED <<started, procs>>

\* fetch_token_and_go logging in again when the new token is reported expired
GoFresh_Loop(r, resp) ==
  LET r1 == Logged(r, RequestEvent(r, r.token, resp))
      res == ApiResult(resp.error_code)
  IN  IF ~resp.ok THEN Panic(r1, "Unwrap")
      ELSE IF res = "Success" THEN [r1 EXCEPT !.result = resp.result, !.pc = "returned"]
      ELSE IF res = "TokenExpired" THEN [r1 EXCEPT !.pc = "get_new_token"]
      ELSE Panic(r1, "ApiError")

\* fetch_token_and_go starting over with a new login when the new token is
\* reported expired; the log of the abandoned round is dropped
GoFresh_StartOver(r, resp) ==
  LET r1 == Logged(r, RequestEvent(r, r.token, resp))
      res == ApiResult(resp.error_code)
      login == CHOOSE i \in 1..Len(r.log) :
                 r.log[i].op = "login" /\ \A j \in 1..(i - 1) : r.log[j].op # "login"
  IN  IF ~resp.ok THEN Panic(r1, "Unwrap")
      ELSE IF res = "Success" THEN [r1 EXCEPT !.result = resp.result, !.pc = "returned"]
      ELSE IF res = "TokenExpired"
        THEN [r EXCEPT !.pc = "get_new_token", !.token = Null,
                       !.log = SubSeq(r.log, 1, login - 1)]
      ELSE Panic(r1, "ApiError")

\* fetch_token_and_go (main.rs:175-179): the request with the new token
GoFresh(r, resp) ==
  LET r1 == Logged(r, RequestEvent(r, r.token, resp))
      res == ApiResult(resp.error_code)
  IN  IF ~resp.ok THEN Panic(r1, "Unwrap")
      ELSE IF res = "Success" THEN [r1 EXCEPT !.result = resp.result, !.pc = "returned"]
      ELSE IF res = "TokenExpired" THEN Panic(r1, "ProtocolInvariantViolation")
      ELSE Panic(r1, "ApiError")

fetch_token_and_go(self) ==
  /\ inv[self].pc = "fetch_go"
  /\ \E resp \in ApiResponsesTo(RequestOf(inv[self].cmd)) :
       inv' = [inv EXCEPT ![self] = GoFresh(inv[self], resp)]
  /\ UNCHANGED <<file, started, procs, last>>

(***************************************************************************)
(* The consumers (main.rs:198-226)                                         *)
(***************************************************************************)
PrintEvent(line) == [op |-> "print", line |-> line]

\* main.rs:201-203: the payload must be an object with an array deviceList
print_device_list(self) ==
  /\ inv[self].pc = "returned"
  /\ inv[self].cmd = "list"
  /\ LET r == inv[self]
     IN  inv' = [inv EXCEPT ![self] =
                   IF ~r.result.hasList THEN Panic(r, "Unwrap")
                   ELSE IF r.result.deviceList = <<>> THEN [r EXCEPT !.pc = "done"]
                   ELSE [r EXCEPT !.pc = "print"]]
  /\ UNCHANGED <<file, started, procs, last>>

\* main.rs:203-207: one turn of the loop over the devices
print_row(self) ==
  /\ inv[self].pc = "print"
  /\ LET r == inv[self]
         list == r.result.deviceList
         d == list[Len(r.out) + 1]
         line == <<d.alias, d.deviceId>>
     IN  inv' = [inv EXCEPT ![self] =
                   IF d.alias = Null \/ d.deviceId = Null THEN Panic(r, "Unwrap")
                   ELSE [Logged(r, PrintEvent(line)) EXCEPT
                           !.out = Append(@, line),
                           !.pc = IF Len(r.out) + 1 = Len(list) THEN "done" ELSE "print"]]
  /\ UNCHANGED <<file, started, procs, last>>

\* main.rs:223-225
get_data(self) ==
  /\ inv[self].pc = "returned"
  /\ inv[self].cmd = "get-data"
  /\ LET r == inv[self]
         line == <<r.result.responseData>>
     IN  inv' = [inv EXCEPT ![self] =
                   IF r.result.responseData = Null THEN Panic(r, "Unwrap")
                   ELSE [Logged(r, PrintEvent(line)) EXCEPT !.out = Append(@, line),
                                                            !.pc = "done"]]
  /\ UNCHANGED <<file, started, procs, last>>

(***************************************************************************)
(* setup (main.rs:92-115)                                                  *)
(***************************************************************************)
\* setup without the overwrite guard
SetupGuard_Absent(r, f) == [r EXCEPT !.pc = "prompt"]

\* the guard testing the path even when the overwrite flag is given
SetupGuard_IgnoresFlag(r, f) ==
  IF f.exists THEN Panic(Logged(r, [op |-> "exists"]), "ConfigExists")
  ELSE [Logged(r, [op |-> "exists"]) EXCEPT !.pc = "prompt"]

\* main.rs:93-99: the overwrite guard; exists() is evaluated only when the
\* flag is not given
SetupGuard(r, f) ==
  IF r.overwrite THEN [r EXCEPT !.pc = "prompt"]
  ELSE IF f.exists THEN Panic(Logged(r, [op |-> "exists"]), "ConfigExists")
  ELSE [Logged(r, [op |-> "exists"]) EXCEPT !.pc = "prompt"]

setup(self) ==
  /\ inv[self].pc = "setup"
  /\ inv' = [inv EXCEPT ![self] = SetupGuard(inv[self], file)]
  /\ UNCHANGED <<file, started, procs, last>>

\* main.rs:100-108: the two prompts
setup_prompt(self) ==
  /\ inv[self].pc = "prompt"
  /\ \E u \in Usernames, p \in Passwords :
       inv' = [inv EXCEPT ![self] =
                 [Logged(Logged(inv[self], [op |-> "prompt", what |-> "username"]),
                         [op |-> "prompt", what |-> "password"])
                    EXCEPT !.login_details = LoginDetailsUsernameAndPassword(u, p),
                           !.pc = "get_new_token"]]
  /\ UNCHANGED <<file, started, procs, last>>

\* main.rs:114
setup_write(self) ==
  /\ inv[self].pc = "setup_write"
  /\ LET r == inv[self]
         rec == PersistedRecord(r)
     IN  /\ file' = rec
         /\ inv' = [inv EXCEPT ![self] =
                      [Logged(r, [op |-> "write", record |-> rec]) EXCEPT !.pc = "done"]]
  /\ last' = [last EXCEPT !.written = self]
  /\ UNCHANGED <<started, procs>>

Next ==
  \E self \in Procs :
    \/ Start(self)
    \/ runner_resolve(self)
    \/ runner_go(self)
    \/ get_new_token(self)
    \/ get_new_token_write(self)
    \/ fetch_token_and_go(self)
    \/ print_device_list(self)
    \/ print_row(self)
    \/ get_data(self)
    \/ setup(self)
    \/ setup_prompt(self)
    \/ setup_write(self)

Spec == Init /\ [][Next]_vars

\* a step of an invocation that has started
Step(self) ==
  \/ runner_resolve(self)
  \/ runner_go(self)
  \/ get_new_token(self)
  \/ get_new_token_write(self)
  \/ fetch_token_and_go(self)
  \/ print_device_list(self)
  \/ print_row(self)
  \/ get_data(self)
  \/ setup(self)
  \/ setup_prompt(self)
  \/ setup_write(self)

\* the program run once, from any state of the file
StartOnce(self) == inv[self].pc = "idle" /\ Start(self)

NextOnce == \E self \in Procs : StartOnce(self) \/ Step(self)

\* Every network call returns and the process is scheduled: an invocation
\* that can take a step takes one.  Nothing obliges anyone to start the
\* program.
FairSpec == Init /\ [][NextOnce]_vars /\ \A self \in Procs : WF_vars(Step(self))

(***************************************************************************)
(* Two invocations of list or get-data at the same time, on the same path *)
(***************************************************************************)
\* the record that both find: complete, with a token of an earlier login
InitRace ==
  /\ file = Settings("alice", "pw1", "T0")
  /\ inv = [p \in Procs |-> Idle]
  /\ started = 0
  /\ procs = Procs
  /\ last = NoneYet

\* main (main.rs:229-287): list or get-data without -u and -p; each process
\* runs the program once.  The loop that prints the devices does not touch
\* the file: one list at a time is enough to interleave it with the file
\* accesses of the other invocation.
StartQuery(self) ==
  /\ self \in procs
  /\ inv[self].pc = "idle"
  /\ \E cmd \in {"list", "get-data"} :
       /\ cmd = "list" => \A q \in procs \ {self} : inv[q].pc = "idle" \/ inv[q].cmd # "list"
       /\ inv' = [inv EXCEPT ![self] =
                    [Idle EXCEPT !.pc = "runner", !.cmd = cmd, !.file0 = file]]
  /\ started' = started + 1
  /\ UNCHANGED <<file, procs, last>>

NextRace ==
  \E self \in Procs :
    \/ StartQuery(self)
    \/ runner_resolve(self)
    \/ runner_go(self)
    \/ get_new_token(self)
    \/ get_new_token_write(self)
    \/ fetch_token_and_go(self)
    \/ print_device_list(self)
    \/ print_row(self)
    \/ get_data(self)

RaceSpec == InitRace /\ [][NextRace]_vars

(***************************************************************************)
(* Vocabulary of the properties: what an invocation did, read off its log  *)
(***************************************************************************)
Events(r, op) == SelectSeq(r.log, LAMBDA e : e.op = op)

Count(r, op) == Len(Events(r, op))

Positions(r, op) == {i \in 1..Len(r.log) : r.log[i].op = op}

\* a list or get-data invocation
IsQuery(r) == r.pc # "idle" /\ r.cmd \in {"list", "get-data"}

IsStored(r) == r.login_details.kind = "Settings"

IsExplicit(r) == r.argU # Null /\ r.argP # Null

\* runner has returned or the invocation has failed
RunnerOver(r) == r.pc \in {"returned", "print", "done", "failed"}

\* the first request of a Stored identity was answered with this code
FirstAnswered(r, code) ==
  /\ IsQuery(r) /\ IsStored(r)
  /\ Count(r, "request") >= 1
  /\ Events(r, "request")[1].ok
  /\ Events(r, "request")[1].error_code = code

\* a login call whose response was error_code 0 with a token
Minted(e) == e.op = "login" /\ e.ok /\ e.error_code = 0 /\ e.token # Null

LoginSucceeded(r) == \E i \in Positions(r, "login") : Minted(r.log[i])

\* every response the invocation received was a decodable envelope, and a
\* login answered with error_code 0 carried a token
WellFormed(r) ==
  \A i \in Positions(r, "login") \cup Positions(r, "request") :
    /\ r.log[i].ok
    /\ (r.log[i].op = "login" /\ r.log[i].error_code = 0) => r.log[i].token # Null

\* the record an invocation read from the file
RecordRead(r) == Events(r, "read")[1].record

(***************************************************************************)
(* Properties                                                              *)
(***************************************************************************)
\* C1 as stated: a Stored identity whose first request is answered with
\* -20651 performs exactly one login call and exactly one retried request,
\* whatever the login answers; if the login succeeds the file holds the
\* username and password that were read and the new token.  (Stated for
\* the runs in which every response is a well-formed envelope.)
C1_AsStated ==
  \A p \in procs :
    LET r == inv[p]
    IN  (FirstAnswered(r, -20651) /\ RunnerOver(r) /\ WellFormed(r)) =>
          /\ Count(r, "login") = 1
          /\ Count(r, "request") = 2
          /\ LoginSucceeded(r) =>
               file = [exists |-> TRUE, username |-> RecordRead(r).username,
                       password |-> RecordRead(r).password,
                       token |-> Events(r, "login")[1].token]

\* C1: a Stored identity whose first request is answered with -20651
\* performs exactly one login call; if that login succeeds there is exactly
\* one retried request and the file holds the username and password that
\* were read and the new token; if it does not there is no retried request.
C1_ReauthOnce ==
  \A p \in procs :
    LET r == inv[p]
    IN  (FirstAnswered(r, -20651) /\ RunnerOver(r)) =>
          /\ Count(r, "login") = 1
          /\ LoginSucceeded(r) =>
               /\ Count(r, "request") = 2
               /\ file = [exists |-> TRUE, username |-> RecordRead(r).username,
                          password |-> RecordRead(r).password,
                          token |-> Events(r, "login")[1].token]
          /\ ~LoginSucceeded(r) => Count(r, "request") = 1

\* the retried list call succeeded and the record now ends with another token
C1_Witness ==
  \E p \in procs :
    LET r == inv[p]
    IN  /\ FirstAnswered(r, -20651) /\ r.pc = "done"
        /\ LoginSucceeded(r)
        /\ Count(r, "request") = 2
        /\ r.file0.token = "T0" /\ file.token = "T2"
        /\ file.username = r.file0.username /\ file.password = r.file0.password

\* C2: a Stored identity whose first request is answered with error_code 0
\* performs no login call, issues that one request only, never writes the
\* record, and runner returns the payload of that response.
C2_CachedTokenAccepted ==
  \A p \in procs :
    LET r == inv[p]
    IN  FirstAnswered(r, 0) =>
          /\ Count(r, "login") = 0
          /\ Count(r, "request") = 1
          /\ Count(r, "write") = 0
          /\ file = r.file0
          /\ r.pc \in {"returned", "print", "done", "failed"}
          /\ r.result = Events(r, "request")[1].result
          /\ r.error \in {"None", "Unwrap"}

\* get-data printed the data of the only response, the record untouched
C2_Witness ==
  \E p \in procs :
    LET r == inv[p]
    IN  /\ FirstAnswered(r, 0) /\ r.pc = "done" /\ r.cmd = "get-data"
        /\ r.log[3].result.responseData = "data"
        /\ r.out = <<(<<"data">>)>>
        /\ file = r.file0 /\ file.token = "T1"

\* C3: a list or get-data invocation given both username and password
\* performs exactly one login call whatever the file holds, never looks at
\* the file and never writes it, however the login and the request end.
C3_ExplicitIdentity ==
  \A p \in procs :
    LET r == inv[p]
    IN  (IsQuery(r) /\ IsExplicit(r)) =>
          /\ Count(r, "exists") = 0
          /\ Count(r, "read") = 0
          /\ Count(r, "write") = 0
          /\ file = r.file0
          /\ Count(r, "login") <= 1
          /\ RunnerOver(r) => Count(r, "login") = 1

\* explicit credentials other than those of an existing full record: the
\* login and the request succeeded and the record is as it was
C3_Witness ==
  \E p \in procs :
    LET r == inv[p]
    IN  /\ IsQuery(r) /\ IsExplicit(r) /\ r.pc = "done"
        /\ r.file0.exists /\ r.file0.token = "T1" /\ r.file0.username = "alice"
        /\ r.argU = "bob"
        /\ Count(r, "login") = 1 /\ LoginSucceeded(r) /\ r.token = "T2"
        /\ file = r.file0

\* a request issued with the token of a login of the same invocation
FreshRequests(r) ==
  {i \in Positions(r, "request") : \E j \in Positions(r, "login") : j < i}

\* C4: when a request issued with a freshly minted token is answered with
\* -20651 the invocation fails with the protocol-invariant-violation error
\* and performs no further login call and no further request.
C4_FreshTokenExpired ==
  \A p \in procs :
    LET r == inv[p]
    IN  IsQuery(r) =>
          \A i \in FreshRequests(r) :
            (r.log[i].ok /\ r.log[i].error_code = -20651) =>
              /\ r.pc = "failed"
              /\ r.error = "ProtocolInvariantViolation"
              /\ \A k \in Positions(r, "login") \cup Positions(r, "request") : k <= i

\* a Stored identity re-authenticated and the retried request, carrying the
\* token of that login, was answered with -20651 again
C4_Witness ==
  \E p \in procs :
    LET r == inv[p]
    IN  /\ FirstAnswered(r, -20651)
        /\ Count(r, "request") = 2
        /\ Events(r, "request")[2].error_code = -20651
        /\ Events(r, "request")[2].token = Events(r, "login")[1].token
        /\ r.error = "ProtocolInvariantViolation"

\* C5: in a list or get-data invocation there is at most one login call and
\* at most two requests, and a second request is issued only after a login
\* call of the invocation succeeded.
C5_AtMostOneReauth ==
  \A p \in procs :
    LET r == inv[p]
    IN  IsQuery(r) =>
          /\ Count(r, "login") <= 1
          /\ Count(r, "request") <= 2
          /\ \A i \in Positions(r, "request") :
               (\E k \in Positions(r, "request") : k < i) =>
                 \E j \in Positions(r, "login") : j < i /\ Minted(r.log[j])

\* the retried request failed although the login had succeeded
C5_Witness ==
  \E p \in procs :
    LET r == inv[p]
    IN  /\ IsQuery(r) /\ r.pc = "failed" /\ r.error = "ApiError"
        /\ Count(r, "login") = 1 /\ Count(r, "request") = 2
        /\ Events(r, "request")[2].error_code = 1

\* C6: a list or get-data invocation given exactly one of username and
\* password fails with the invalid-arguments error whatever the file holds,
\* before it looks at the file, logs in or issues a request.
C6_OneCredentialOnly ==
  \A p \in procs :
    LET r == inv[p]
    IN  (IsQuery(r) /\ r.pc # "runner" /\ (r.argU = Null) # (r.argP = Null)) =>
          /\ r.pc = "failed"
          /\ r.error = "InvalidArguments"
          /\ r.log = <<>>
          /\ file = r.file0

\* a password without a username, with a full record on disk
C6_Witness ==
  \E p \in procs :
    LET r == inv[p]
    IN  /\ IsQuery(r) /\ r.argU = Null /\ r.argP = "pw1"
        /\ r.error = "InvalidArguments"
        /\ r.file0.exists /\ r.file0.token = "T1"

\* a file that holds the three fields of the record
C7_FullRecord(f) == f.exists /\ f.username # Null /\ f.password # Null /\ f.token # Null

\* C7: with neither username nor password given, a record on disk is
\* resolved to a Stored identity with exactly its username, password and
\* token; with no file the invocation fails with the missing-configuration
\* error, having issued no login call and no request and created no file.
C7_ResolveFromRecord ==
  \A p \in procs :
    LET r == inv[p]
    IN  (IsQuery(r) /\ r.pc # "runner" /\ r.argU = Null /\ r.argP = Null) =>
          /\ C7_FullRecord(r.file0) =>
               /\ r.login_details = [kind |-> "Settings", username |-> r.file0.username,
                                     password |-> r.file0.password, token |-> r.file0.token]
               /\ r.error \notin {"MissingConfiguration", "InvalidArguments"}
          /\ ~r.file0.exists =>
               /\ r.pc = "failed"
               /\ r.error = "MissingConfiguration"
               /\ Count(r, "login") = 0 /\ Count(r, "request") = 0 /\ Count(r, "write") = 0
               /\ ~file.exists

\* the record of bob has just been resolved
C7_Witness ==
  \E p \in procs :
    LET r == inv[p]
    IN  /\ IsQuery(r) /\ r.argU = Null /\ r.argP = Null /\ r.pc = "go"
        /\ r.file0 = [exists |-> TRUE, username |-> "bob", password |-> "pw2", token |-> "T2"]
        /\ IsStored(r) /\ r.login_details.token = "T2"

\* C8: when the login response has a non-zero error_code the invocation
\* fails with the authentication error; there is no other login call,
\* nothing follows the login and the file is as it was.
C8_LoginRejected ==
  \A p \in procs :
    LET r == inv[p]
    IN  \A i \in Positions(r, "login") :
          (r.log[i].ok /\ r.log[i].error_code # 0) =>
            /\ r.pc = "failed"
            /\ r.error = "AuthenticationError"
            /\ Count(r, "login") = 1
            /\ i = Len(r.log)
            /\ Count(r, "write") = 0
            /\ file = r.file0

\* the re-authentication of a Stored identity was answered with -20651
C8_Witness ==
  \E p \in procs :
    LET r == inv[p]
    IN  /\ FirstAnswered(r, -20651)
        /\ Count(r, "login") = 1
        /\ Events(r, "login")[1].error_code = -20651
        /\ r.error = "AuthenticationError"
        /\ file = r.file0 /\ file.token = "T0"

\* the three classes of a response, by error_code
C9_Class(error_code) ==
  IF error_code = 0 THEN "Success"
  ELSE IF error_code = -20651 THEN "TokenExpired"
  ELSE "Error"

\* C9: a response is Success for error_code 0, TokenExpired for -20651 and
\* Error for every other code, and the invocation goes on accordingly; when
\* the first request of a Stored identity is an Error the invocation fails
\* with the API error at once: no login call, no second request, no write.
C9_Classification ==
  /\ \A c \in (-20652 .. -20650) \cup (-2 .. 2) : ApiResult(c) = C9_Class(c)
  /\ \A p \in procs :
       LET r == inv[p]
       IN  IsQuery(r) =>
             /\ \A i \in Positions(r, "request") :
                  LET e == r.log[i]
                      class == C9_Class(e.error_code)
                  IN  e.ok =>
                        /\ class = "Error" =>
                             r.pc = "failed" /\ r.error = "ApiError" /\ i = Len(r.log)
                        /\ class = "Success" =>
                             /\ r.result = e.result
                             /\ r.error \in {"None", "Unwrap"}
                             /\ \A k \in Positions(r, "login") \cup Positions(r, "request") : k <= i
                        /\ class = "TokenExpired" =>
                             IF i \in FreshRequests(r)
                               THEN r.error = "ProtocolInvariantViolation"
                             ELSE IF i = Len(r.log) THEN r.pc = "get_new_token"
                             ELSE r.log[i + 1].op = "login"
             /\ \A c \in Codes \ {0, -20651} :
                  FirstAnswered(r, c) =>
                    /\ r.pc = "failed" /\ r.error = "ApiError"
                    /\ Count(r, "login") = 0
                    /\ Count(r, "request") = 1
                    /\ Count(r, "write") = 0
                    /\ file = r.file0

\* the first request of a Stored identity was answered with -20601
C9_Witness ==
  \E p \in procs :
    LET r == inv[p]
    IN  /\ FirstAnswered(r, -20601)
        /\ r.error = "ApiError"
        /\ Count(r, "login") = 0

\* C10: setup without the overwrite flag, with a file at the path, fails
\* with the configuration error before any prompt and any login call, and
\* the file is not modified.
C10_SetupRefusesExisting ==
  \A p \in procs :
    LET r == inv[p]
    IN  (r.cmd = "setup" /\ r.pc \notin {"idle", "setup"} /\ ~r.overwrite /\ r.file0.exists) =>
          /\ r.pc = "failed"
          /\ r.error = "ConfigExists"
          /\ Count(r, "prompt") = 0
          /\ Count(r, "login") = 0
          /\ Count(r, "write") = 0
          /\ file = r.file0

\* setup refused to replace the record of alice
C10_Witness ==
  \E p \in procs :
    LET r == inv[p]
    IN  /\ r.cmd = "setup" /\ ~r.overwrite /\ r.error = "ConfigExists"
        /\ file = [exists |-> TRUE, username |-> "alice", password |-> "pw1", token |-> "T1"]

\* the invocation is over
Finished(r) == r.pc \in {"done", "failed"}

\* C11 as stated: after a setup invocation with the overwrite flag the file
\* holds the username and the password that were entered, whatever the file
\* held before and whatever the login answered.  (Stated for the runs in
\* which every response is a well-formed envelope.)
C11_AsStated ==
  \A p \in procs :
    LET r == inv[p]
    IN  (r.cmd = "setup" /\ r.overwrite /\ Finished(r) /\ WellFormed(r)) =>
          /\ file.exists
          /\ file.username = r.login_details.username
          /\ file.password = r.login_details.password

\* C11: a setup invocation with the overwrite flag is never refused because
\* of the file: it prompts and logs in once whatever the file holds.  When
\* the login succeeds the file is replaced by the username and the password
\* that were entered and the token of the login; when it does not, the file
\* is left as it was.
C11_SetupOverwrites ==
  \A p \in procs :
    LET r == inv[p]
    IN  (r.cmd = "setup" /\ r.overwrite /\ Finished(r)) =>
          /\ r.error # "ConfigExists"
          /\ Count(r, "prompt") = 2
          /\ Count(r, "login") = 1
          /\ LoginSucceeded(r) =>
               /\ r.pc = "done"
               /\ file = [exists |-> TRUE, username |-> r.login_details.username,
                          password |-> r.login_details.password,
                          token |-> Events(r, "login")[1].token]
          /\ ~LoginSucceeded(r) => r.pc = "failed" /\ file = r.file0

\* the record of alice was replaced by that of bob
C11_Witness ==
  \E p \in procs :
    LET r == inv[p]
    IN  /\ r.cmd = "setup" /\ r.overwrite /\ r.pc = "done"
        /\ r.file0 = [exists |-> TRUE, username |-> "alice", password |-> "pw1", token |-> "T0"]
        /\ file = [exists |-> TRUE, username |-> "bob", password |-> "pw2", token |-> "T1"]

\* C12: in every invocation the credential file is read at most once and
\* written at most once.
C12_ReadOnceWriteOnce ==
  \A p \in procs :
    LET r == inv[p]
    IN  Count(r, "read") <= 1 /\ Count(r, "write") <= 1

\* a Stored identity has read the record and has just saved the new token
C12_Witness ==
  \E p \in procs :
    LET r == inv[p]
    IN  /\ IsQuery(r) /\ r.pc = "fetch_go"
        /\ Count(r, "read") = 1 /\ Count(r, "write") = 1
        /\ file.token = "T1" /\ r.file0.token = "T2"

\* C13: every write of the record comes after a login call of the same
\* invocation that returned error_code 0, and writes the token of that
\* login; a list or get-data invocation writes only for a Stored identity,
\* and credentials that did not come from the record are written only by
\* setup.
C13_WriteAfterLogin ==
  \A p \in procs :
    LET r == inv[p]
    IN  /\ \A i \in Positions(r, "write") :
             /\ \E j \in Positions(r, "login") :
                  j < i /\ Minted(r.log[j]) /\ r.log[i].record.token = r.log[j].token
             /\ IsQuery(r) => IsStored(r)
             /\ r.login_details.kind = "UsernameAndPassword" => r.cmd = "setup"
        /\ (r.pc # "idle" /\ Count(r, "write") = 0 /\ Cardinality(procs) = 1) => file = r.file0

\* setup created the record with the token of its login
C13_Witness ==
  \E p \in procs :
    LET r == inv[p]
    IN  /\ r.cmd = "setup" /\ ~r.overwrite /\ r.pc = "done"
        /\ ~r.file0.exists
        /\ Count(r, "write") = 1
        /\ Events(r, "login")[1].token = "T2"
        /\ file.token = "T2"

\* C14: when the previous invocation re-authenticated a Stored identity
\* successfully, the next invocation of list or get-data without
\* credentials, run after it on the same path, resolves to the record with
\* the new token, issues its first request with that token and, if the
\* service accepts it, performs no login call.
C14_RotationCarriesOver ==
  \A p \in procs :
    LET r == inv[p]
    IN  (procs = {p} /\ IsQuery(r) /\ r.prev.rotated /\ r.argU = Null /\ r.argP = Null) =>
          /\ r.file0.token = r.prev.token
          /\ r.pc # "runner" => (IsStored(r) /\ r.login_details.token = r.prev.token)
          /\ Count(r, "request") >= 1 => Events(r, "request")[1].token = r.prev.token
          /\ FirstAnswered(r, 0) => Count(r, "login") = 0

\* the second invocation used the token T2 that the first one had obtained,
\* and did not log in
C14_Witness ==
  \E p \in procs :
    LET r == inv[p]
    IN  /\ started = 2 /\ r.prev.rotated /\ r.prev.token = "T2"
        /\ FirstAnswered(r, 0) /\ r.pc = "done"
        /\ Events(r, "request")[1].token = "T2"
        /\ Count(r, "login") = 0

\* the lines of a device list, one per device, in order
C15_Lines(list) == [i \in 1..Len(list) |-> <<list[i].alias, list[i].deviceId>>]

\* C15: there is no partial success.  A list invocation that is over has
\* either succeeded, with one line printed for every device of the returned
\* deviceList in order, or failed with no line printed; a get-data
\* invocation has printed the data only if it succeeded.
C15_NoPartialSuccess ==
  \A p \in procs :
    LET r == inv[p]
    IN  (IsQuery(r) /\ Finished(r)) =>
          IF r.cmd = "list"
            THEN \/ r.pc = "done" /\ r.out = C15_Lines(r.result.deviceList)
                 \/ r.pc = "failed" /\ r.out = <<>>
            ELSE r.out # <<>> => r.pc = "done"

\* C16: the token of the record is optional.  With neither username nor
\* password given, a file that holds a username and a password but no token
\* is resolved to a Stored identity, and the invocation is not failed by
\* the resolution.
C16_TokenOptional ==
  \A p \in procs :
    LET r == inv[p]
    IN  (/\ IsQuery(r) /\ r.pc # "runner" /\ r.argU = Null /\ r.argP = Null
         /\ r.file0.exists /\ r.file0.username # Null /\ r.file0.password # Null
         /\ r.file0.token = Null) =>
          /\ IsStored(r)
          /\ r.login_details.username = r.file0.username
          /\ r.login_details.password = r.file0.password
          /\ ~(r.pc = "failed" /\ Count(r, "login") = 0 /\ Count(r, "request") = 0)

\* C17: every list or get-data invocation terminates: once started it
\* reaches a terminal state, success or fatal error, whatever the service
\* answers.
C17_Terminates ==
  \A p \in Procs : (IsQuery(inv[p]) /\ ~Finished(inv[p])) ~> Finished(inv[p])

\* the longest run: the record read, the token expired, a new one obtained
\* and saved, the retried list answered with two devices, both printed
C17_Witness ==
  \E p \in procs :
    LET r == inv[p]
    IN  /\ IsQuery(r) /\ r.pc = "done" /\ r.cmd = "list"
        /\ Len(r.log) = 8
        /\ Len(r.out) = 2

\* C18: a request issued after a login carries the token returned by that
\* login, and all the requests of an invocation carry the same payload.
C18_RetryUsesNewToken ==
  \A p \in procs :
    LET r == inv[p]
    IN  IsQuery(r) =>
          /\ \A i \in FreshRequests(r) :
               \E j \in Positions(r, "login") :
                 j < i /\ Minted(r.log[j]) /\ r.log[i].token = r.log[j].token
          /\ \A i, k \in Positions(r, "request") : r.log[i].request = r.log[k].request

\* get-data: the first request went out with T0 of the record, the retried
\* one with T1 of the login, both with the passthrough payload
C18_Witness ==
  \E p \in procs :
    LET r == inv[p]
    IN  /\ IsQuery(r) /\ IsStored(r) /\ Count(r, "request") = 2
        /\ Events(r, "request")[1].token = "T0"
        /\ Events(r, "login")[1].token = "T1"
        /\ Events(r, "request")[2].token = "T1"
        /\ Events(r, "request")[1].request = "passthrough"
        /\ Events(r, "request")[2].request = "passthrough"

\* the record that a Stored identity saves: what it read, with the token of
\* its login
C19_NewRecord(r) ==
  [exists |-> TRUE, username |-> RecordRead(r).username,
   password |-> RecordRead(r).password, token |-> Events(r, "login")[1].token]

\* C19: a Stored identity writes the new token to the record before it
\* issues the retried request; when the retried request is answered with an
\* error or with -20651 the invocation fails and the record on disk holds
\* the new token with the username and the password that were read.
C19_SavedBeforeRetry ==
  \A p \in procs :
    LET r == inv[p]
    IN  (IsQuery(r) /\ IsStored(r)) =>
          \A i \in FreshRequests(r) :
            /\ \E w \in Positions(r, "write") : w < i /\ r.log[w].record = C19_NewRecord(r)
            /\ procs = {p} => file = C19_NewRecord(r)
            /\ (r.log[i].ok /\ r.log[i].error_code # 0) => r.pc = "failed"

\* the retried request was answered with error_code 1: the invocation
\* failed, and the record holds T2 instead of T1
C19_Witness ==
  \E p \in procs :
    LET r == inv[p]
    IN  /\ IsQuery(r) /\ IsStored(r) /\ Count(r, "request") = 2
        /\ Events(r, "request")[2].error_code = 1
        /\ r.pc = "failed" /\ r.error = "ApiError"
        /\ r.file0.token = "T1" /\ file.token = "T2"
        /\ file.username = r.file0.username /\ file.password = r.file0.password

\* both invocations read the same record and had its token reported expired
C20_BothStale ==
  /\ FirstAnswered(inv[1], -20651)
  /\ FirstAnswered(inv[2], -20651)
  /\ RecordRead(inv[1]) = RecordRead(inv[2])

\* the tokens returned by the successful logins of an invocation
C20_MintedBy(r) == {r.log[i].token : i \in {j \in Positions(r, "login") : Minted(r.log[j])}}

====
